---- MODULE Spec2Model ----
(***************************************************************************)
(* Model of the batch conversion driver of convert_audio.py: main() and    *)
(* convert_audio_file().  The filesystem, the console and the external     *)
(* ffmpeg process are the environment; main()'s locals and its position    *)
(* are the program state.                                                  *)
(***************************************************************************)
EXTENDS Integers, Sequences, FiniteSets, TLC

\* ------------------------------------------------------------------ bounds
\* number of distinct *.mp3 names that may lie in music/
MaxFiles == 3
\* number of distinct names in music/ that do not end in .mp3
MaxOther == 1

\* ------------------------------------------------------------- filesystem
music_dir == "music"
output_dir == "public/music"

Mp3Names == {[stem |-> s, suffix |-> ".mp3"] : s \in 1..MaxFiles}
OtherNames == {[stem |-> s, suffix |-> ".wav"] : s \in 1..MaxOther}
Names == Mp3Names \cup OtherNames

\* a pathlib.Path: parent directory and final component
Path(dir, name) == [parent |-> dir, name |-> name]

VARIABLES
    dirs,            \* directories that exist, a subset of {music_dir, output_dir}
    files,           \* regular files that exist, a set of Paths
    ffmpeg_present,  \* whether "ffmpeg.exe" resolves; fixed for the whole run
    pc,              \* position of main()
    mp3_files,       \* main's local list (bound at line 60)
    i,               \* position of the for loop of line 69 in mp3_files
    success_count,   \* main's local counter (bound at line 68)
    exit_code,       \* process exit status, meaningful when pc = "exit"
    console,         \* lines printed so far
    invocations,     \* calls of subprocess.run so far, with their results
    mkdir_created    \* whether line 57 had to create the directory

vars == <<dirs, files, ffmpeg_present, pc, mp3_files, i, success_count,
          exit_code, console, invocations, mkdir_created>>

\* Path.exists()
exists(dir) == dir \in dirs

\* fnmatch of a file name against "*.mp3"
fnmatch_mp3(name) == name.suffix = ".mp3"

\* every order in which a finite set can be enumerated
Listings(S) ==
    {s \in [1..Cardinality(S) -> S] :
        \A a, b \in 1..Cardinality(S) : a # b => s[a] # s[b]}

\* list(music_dir.glob("*.mp3")): the matching entries directly inside dir,
\* in whatever order the filesystem enumerates them
glob_mp3(dir) ==
    Listings({f \in files : f.parent = dir /\ fnmatch_mp3(f.name)})

\* Path.mkdir(parents=True, exist_ok=True)
Mkdir_skip(ds, dir) == ds
Mkdir(ds, dir) == ds \cup {dir}

\* `if not music_dir.exists()`
MusicDirMissing_never == FALSE
MusicDirMissing == ~exists(music_dir)

\* `if not mp3_files`
NoFiles_never(lst) == FALSE
NoFiles(lst) == lst = <<>>

\* output_dir / mp3_file.name
OutputPath_fixed(dir, mp3_file) == Path(dir, [stem |-> 1, suffix |-> ".mp3"])
OutputPath(dir, mp3_file) == Path(dir, mp3_file.name)

\* the argument list of lines 20-28
Cmd(input_path, output_path) ==
    <<"ffmpeg.exe", "-i", input_path, "-ar", "44100", "-ac", "2",
      "-b:a", "192k", "-y", output_path>>

\* ------------------------------------------------------- subprocess.run
Completed(rc) == [kind |-> "completed", returncode |-> rc]
Raised(exc) == [kind |-> "raised", exc |-> exc]

\* exit statuses of ffmpeg: 0 needs a directory to write the output into
ReturnCodes(cmd) == IF cmd[Len(cmd)].parent \in dirs THEN {0, 1} ELSE {1}

\* outcomes of subprocess.run(cmd, capture_output=True, text=True, timeout=60)
subprocess_run(cmd) ==
    IF ~ffmpeg_present
    THEN {Raised("FileNotFoundError")}
    ELSE {Completed(rc) : rc \in ReturnCodes(cmd)}
         \cup {Raised("TimeoutExpired"), Raised("PermissionError")}

\* whether the output file exists after the call: ffmpeg -y writes it on
\* success, may leave a partial file when it fails or is killed, and never
\* ran when the executable could not be started
ToolWrites(cmd, result) ==
    IF result.kind = "completed" /\ result.returncode = 0 THEN {TRUE}
    ELSE IF result.kind = "raised"
            /\ result.exc \in {"FileNotFoundError", "PermissionError"}
         THEN {FALSE}
    ELSE IF cmd[Len(cmd)].parent \in dirs THEN {FALSE, TRUE}
    ELSE {FALSE}

\* ------------------------------------------------- convert_audio_file
\* direct base class of the exception classes involved
Base(cls) ==
    CASE cls = "TimeoutExpired" -> "SubprocessError"
      [] cls = "SubprocessError" -> "Exception"
      [] cls = "FileNotFoundError" -> "OSError"
      [] cls = "PermissionError" -> "OSError"
      [] cls = "OSError" -> "Exception"
      [] cls = "Exception" -> "BaseException"
      [] OTHER -> "object"

RECURSIVE issubclass(_, _)
issubclass(cls, of) ==
    IF cls = of THEN TRUE
    ELSE IF cls = "object" THEN FALSE
    ELSE issubclass(Base(cls), of)

\* the except clauses of lines 39-47, in source order, with the line printed
ExceptClauses_nogeneric ==
    << [cls |-> "TimeoutExpired", line |-> "timed_out"],
       [cls |-> "FileNotFoundError", line |-> "ffmpeg_not_found"] >>
ExceptClauses_genericfirst ==
    << [cls |-> "Exception", line |-> "error"],
       [cls |-> "TimeoutExpired", line |-> "timed_out"],
       [cls |-> "FileNotFoundError", line |-> "ffmpeg_not_found"] >>
ExceptClauses ==
    << [cls |-> "TimeoutExpired", line |-> "timed_out"],
       [cls |-> "FileNotFoundError", line |-> "ffmpeg_not_found"],
       [cls |-> "Exception", line |-> "error"] >>

\* index of the first except clause that catches exc, 0 when none does
RECURSIVE Handler(_, _)
Handler(exc, k) ==
    IF k > Len(ExceptClauses) THEN 0
    ELSE IF issubclass(exc, ExceptClauses[k].cls) THEN k
    ELSE Handler(exc, k + 1)

\* what convert_audio_file does with the outcome of subprocess.run: the
\* outcome line it prints and the value it returns, or the exception leaves it
convert_audio_file(result) ==
    IF result.kind = "completed"
    THEN IF result.returncode = 0
         THEN [propagates |-> FALSE, value |-> TRUE, line |-> "converted"]
         ELSE [propagates |-> FALSE, value |-> FALSE, line |-> "ffmpeg_error"]
    ELSE LET k == Handler(result.exc, 1) IN
         IF k = 0
         THEN [propagates |-> TRUE, value |-> FALSE, line |-> "traceback"]
         ELSE [propagates |-> FALSE, value |-> FALSE,
               line |-> ExceptClauses[k].line]

\* ----------------------------------------------------------------- main
\* `if convert_audio_file(...): success_count += 1`
Tally_double(count, ok) == IF ok THEN count + 2 ELSE count
Tally(count, ok) == IF ok THEN count + 1 ELSE count

\* the for loop steps to the next element whatever the body did
LoopAdvance_break(idx, n, ok) == IF ok THEN idx + 1 ELSE n + 1
LoopAdvance(idx, n, ok) == idx + 1

\* f"Conversion complete: {success_count}/{len(mp3_files)} successful"
SummaryLine_failures(count, total) ==
    [kind |-> "complete", successes |-> total - count, total |-> total]
SummaryLine(count, total) ==
    [kind |-> "complete", successes |-> count, total |-> total]

\* `if success_count < len(mp3_files): sys.exit(1)`, else main returns
FinalStatus_inverted(count, total) == IF count < total THEN 0 ELSE 1
FinalStatus(count, total) == IF count < total THEN 1 ELSE 0

Line(kind) == [kind |-> kind]

Init ==
    /\ dirs \in SUBSET {music_dir, output_dir}
    /\ \E inputs \in SUBSET Names, stale \in SUBSET Mp3Names :
          files = {Path(music_dir, n) : n \in IF music_dir \in dirs
                                               THEN inputs ELSE {}}
                  \cup {Path(output_dir, n) : n \in IF output_dir \in dirs
                                                    THEN stale ELSE {}}
    /\ ffmpeg_present \in BOOLEAN
    /\ pc = "check_music"
    /\ mp3_files = <<>>
    /\ i = 0
    /\ success_count = 0
    /\ exit_code = 0
    /\ console = <<>>
    /\ invocations = <<>>
    /\ mkdir_created = FALSE

\* lines 53-55
CheckMusicDir ==
    /\ pc = "check_music"
    /\ IF MusicDirMissing
       THEN /\ console' = Append(console, Line("dir_not_found"))
            /\ exit_code' = 1
            /\ pc' = "exit"
       ELSE /\ pc' = "mkdir"
            /\ UNCHANGED <<console, exit_code>>
    /\ UNCHANGED <<dirs, files, ffmpeg_present, mp3_files, i, success_count,
                   invocations, mkdir_created>>

\* line 57
MakeOutputDir ==
    /\ pc = "mkdir"
    /\ dirs' = Mkdir(dirs, output_dir)
    /\ mkdir_created' = (dirs' # dirs)
    /\ pc' = "glob"
    /\ UNCHANGED <<files, ffmpeg_present, mp3_files, i, success_count,
                   exit_code, console, invocations>>

\* lines 60-68
FindMp3Files ==
    /\ pc = "glob"
    /\ \E listing \in glob_mp3(music_dir) :
          /\ mp3_files' = listing
          /\ IF NoFiles(listing)
             THEN /\ console' = Append(console, Line("no_mp3"))
                  /\ exit_code' = 1
                  /\ pc' = "exit"
                  /\ UNCHANGED <<i, success_count>>
             ELSE /\ console' = Append(console,
                        [kind |-> "found", total |-> Len(listing)])
                  /\ success_count' = 0
                  /\ i' = 1
                  /\ pc' = IF Len(listing) >= 1 THEN "loop" ELSE "summary"
                  /\ UNCHANGED exit_code
    /\ UNCHANGED <<dirs, files, ffmpeg_present, invocations, mkdir_created>>

\* one iteration of the loop of lines 69-72, convert_audio_file included
ConvertNext ==
    /\ pc = "loop"
    /\ i <= Len(mp3_files)
    /\ LET mp3_file == mp3_files[i]
           output_path == OutputPath(output_dir, mp3_file)
           cmd == Cmd(mp3_file, output_path)
       IN \E result \in subprocess_run(cmd) :
          \E written \in ToolWrites(cmd, result) :
             LET r == convert_audio_file(result) IN
             /\ invocations' = Append(invocations,
                                      [cmd |-> cmd, result |-> result])
             /\ files' = IF written THEN files \cup {output_path} ELSE files
             /\ console' = console \o
                   << [kind |-> "converting", name |-> mp3_file.name],
                      Line(r.line) >>
             /\ IF r.propagates
                THEN /\ exit_code' = 1
                     /\ pc' = "exit"
                     /\ UNCHANGED <<i, success_count>>
                ELSE /\ success_count' = Tally(success_count, r.value)
                     /\ i' = LoopAdvance(i, Len(mp3_files), r.value)
                     /\ pc' = IF i' > Len(mp3_files) THEN "summary" ELSE "loop"
                     /\ UNCHANGED exit_code
    /\ UNCHANGED <<dirs, ffmpeg_present, mp3_files, mkdir_created>>

\* lines 74-76
PrintSummary ==
    /\ pc = "summary"
    /\ console' = Append(console, SummaryLine(success_count, Len(mp3_files)))
    /\ pc' = "final"
    /\ UNCHANGED <<dirs, files, ffmpeg_present, mp3_files, i, success_count,
                   exit_code, invocations, mkdir_created>>

\* lines 78-80 and the return of main
CheckFailures ==
    /\ pc = "final"
    /\ exit_code' = FinalStatus(success_count, Len(mp3_files))
    /\ console' = IF success_count < Len(mp3_files)
                  THEN Append(console, Line("some_failed"))
                  ELSE console
    /\ pc' = "exit"
    /\ UNCHANGED <<dirs, files, ffmpeg_present, mp3_files, i, success_count,
                   invocations, mkdir_created>>

Next ==
    \/ CheckMusicDir
    \/ MakeOutputDir
    \/ FindMp3Files
    \/ ConvertNext
    \/ PrintSummary
    \/ CheckFailures

Spec == Init /\ [][Next]_vars

\* ------------------------------------------------------------ properties
\* the files the glob of line 60 can discover
Discoverable == {f \in files : f.parent = music_dir /\ fnmatch_mp3(f.name)}

Succeeded(inv) == inv.result.kind = "completed" /\ inv.result.returncode = 0

\* number of calls of the tool so far that returned exit status 0
RECURSIVE SuccessesIn(_)
SuccessesIn(invs) ==
    IF invs = <<>> THEN 0
    ELSE (IF Succeeded(Head(invs)) THEN 1 ELSE 0) + SuccessesIn(Tail(invs))

LinesOfKind(kinds) == SelectSeq(console, LAMBDA l : l.kind \in kinds)

OutcomeKinds ==
    {"converted", "ffmpeg_error", "timed_out", "ffmpeg_not_found", "error"}

InputOf(inv) == inv.cmd[3]
OutputOf(inv) == inv.cmd[Len(inv.cmd)]

\* C1: when the process has exited, its status is 0 exactly when the source
\* directory exists, at least one *.mp3 file lies in it, and the tool was run
\* on every one of them and returned 0 each time; otherwise the status is 1.
C1_ExitStatus ==
    pc = "exit" =>
        /\ exit_code \in {0, 1}
        /\ exit_code = 0 <=>
              /\ music_dir \in dirs
              /\ Discoverable # {}
              /\ {InputOf(invocations[k]) : k \in 1..Len(invocations)}
                     = Discoverable
              /\ \A k \in 1..Len(invocations) : Succeeded(invocations[k])

C1_Witness ==
    /\ pc = "exit"
    /\ exit_code = 0
    /\ Len(invocations) >= 2

\* C2: the tool is called once per discovered file, in listing order: the
\* k-th call is for the k-th listed file, the calls never outnumber the
\* files, the loop is at file number (calls + 1), and once the loop is over
\* every listed file has had exactly one call, whatever the outcomes were.
C2_OncePerFileInOrder ==
    /\ Len(invocations) <= Len(mp3_files)
    /\ \A k \in 1..Len(invocations) : InputOf(invocations[k]) = mp3_files[k]
    /\ pc = "loop" => Len(invocations) = i - 1
    /\ (pc \in {"summary", "final"} \/ (pc = "exit" /\ mp3_files # <<>>))
          => Len(invocations) = Len(mp3_files)
    /\ mp3_files # <<>> => mp3_files \in Listings(Discoverable)

C2_Witness ==
    /\ pc = "exit"
    /\ Len(invocations) >= 2
    /\ ~Succeeded(invocations[1])
    /\ Succeeded(invocations[2])

C4_NoMatchingFiles ==
    (music_dir \in dirs /\ Discoverable = {}) =>
        /\ pc \notin {"loop", "summary", "final"}
        /\ invocations = <<>>
        /\ LinesOfKind({"complete", "converting"}) = <<>>
        /\ pc = "exit" => exit_code # 0

C4_Witness ==
    /\ pc = "exit"
    /\ music_dir \in dirs
    /\ Discoverable = {}
    /\ \E f \in files : f.parent = music_dir
    /\ console = <<Line("no_mp3")>>

\* C5: no outcome of a tool call leaves convert_audio_file as an exception:
\* every outcome other than exit status 0 makes it return False, and a run
\* only ends early when the source directory is missing or no file matches;
\* otherwise it ends after every discovered file has been attempted.
C5_PerFileErrorsDoNotAbort ==
    /\ \A k \in 1..Len(invocations) :
          LET r == convert_audio_file(invocations[k].result) IN
          /\ ~r.propagates
          /\ ~Succeeded(invocations[k]) => r.value = FALSE
    /\ LinesOfKind({"traceback"}) = <<>>
    /\ pc = "exit" =>
          \/ music_dir \notin dirs
          \/ Discoverable = {}
          \/ Len(invocations) = Cardinality(Discoverable)

C5_Witness ==
    /\ pc = "exit"
    /\ Len(invocations) >= 2
    /\ invocations[1].result \in {Raised("PermissionError"),
                                  Raised("TimeoutExpired")}
    /\ LinesOfKind({"complete"}) # <<>>

\* C6 as stated: every run ends having printed the summary line.
C6_Original ==
    pc = "exit" => LinesOfKind({"complete"}) # <<>>

\* C6 as amended: a run that finds at least one file ends having printed
\* exactly one summary line, and that line reports as successes the number
\* of tool calls that returned 0 and as total the number of discovered files
\* (so N-K of N when K of N files failed); nothing but the warning about
\* failed files follows it.
C6_SummaryLine ==
    (pc = "exit" /\ mp3_files # <<>>) =>
        LET summaries == LinesOfKind({"complete"})
            K == Len(invocations) - SuccessesIn(invocations)
            N == Cardinality(Discoverable)
        IN /\ Len(summaries) = 1
           /\ summaries[1].total = N
           /\ summaries[1].successes = N - K
           /\ summaries[1].successes = SuccessesIn(invocations)
           /\ \/ console[Len(console)] = summaries[1]
              \/ /\ console[Len(console)] = Line("some_failed")
                 /\ console[Len(console) - 1] = summaries[1]

C6_Witness ==
    /\ pc = "exit"
    /\ Len(mp3_files) >= 2
    /\ SuccessesIn(invocations) >= 1
    /\ SuccessesIn(invocations) < Len(invocations)

\* C7: success_count always lies between 0 and the number of discovered
\* files and never exceeds the number of files attempted so far; it only
\* ever changes by +1, in a step that attempts one more file.
C7_TallyBounds ==
    /\ [](/\ 0 <= success_count
          /\ success_count <= Len(mp3_files)
          /\ success_count <= Len(invocations)
          /\ Len(mp3_files) = IF pc \in {"check_music", "mkdir", "glob"}
                              THEN 0 ELSE Cardinality(Discoverable))
    /\ [][success_count' # success_count =>
             /\ success_count' = success_count + 1
             /\ Len(invocations') = Len(invocations) + 1]_vars

C7_Witness ==
    /\ pc = "exit"
    /\ Len(mp3_files) >= 2
    /\ success_count = Len(mp3_files)

\* C8: when a run over N >= 1 files ends and the tool returned 0 on every
\* call, the exit status is 0 and the run wrote exactly N files, all of which
\* exist: one per input, in the output directory, under the input's name.
C8_AllSucceed ==
    (/\ pc = "exit"
     /\ mp3_files # <<>>
     /\ \A k \in 1..Len(invocations) : Succeeded(invocations[k])) =>
        LET outs == {OutputOf(invocations[k]) : k \in 1..Len(invocations)}
        IN /\ exit_code = 0
           /\ Cardinality(outs) = Cardinality(Discoverable)
           /\ outs = {Path(output_dir, f.name) : f \in Discoverable}
           /\ outs \subseteq files
           /\ \A a, b \in 1..Len(invocations) :
                 OutputOf(invocations[a]) = OutputOf(invocations[b]) => a = b

C8_Witness ==
    /\ pc = "exit"
    /\ exit_code = 0
    /\ Len(mp3_files) >= 2
    /\ mkdir_created
    /\ \A f \in Discoverable : Path(output_dir, f.name) \in files

\* C9: when ffmpeg.exe cannot be resolved, every outcome line printed is the
\* tool-not-found line, success_count stays 0, and a run over N >= 1 files
\* ends with N attempts, N tool-not-found lines and a non-zero exit status.
C9_ToolNotFound ==
    ~ffmpeg_present =>
        /\ LinesOfKind(OutcomeKinds \ {"ffmpeg_not_found"}) = <<>>
        /\ Len(LinesOfKind({"ffmpeg_not_found"})) = Len(invocations)
        /\ success_count = 0
        /\ (pc = "exit" /\ mp3_files # <<>>) =>
              /\ Len(invocations) = Cardinality(Discoverable)
              /\ exit_code # 0

C9_Witness ==
    /\ ~ffmpeg_present
    /\ pc = "exit"
    /\ Len(LinesOfKind({"ffmpeg_not_found"})) >= 2

\* C10: once main is past line 57 the destination directory exists: it
\* exists before the listing is taken, whenever the tool is called, and after
\* a run that stops for want of matching files; a run that stops because the
\* source directory is missing has not created it.
C10_OutputDirFirst ==
    /\ pc \in {"glob", "loop", "summary", "final"} => output_dir \in dirs
    /\ invocations # <<>> => output_dir \in dirs
    /\ LinesOfKind({"no_mp3", "found"}) # <<>> => output_dir \in dirs
    /\ (pc = "exit" /\ music_dir \in dirs) => output_dir \in dirs
    /\ (pc = "exit" /\ music_dir \notin dirs) => ~mkdir_created

C10_Witness ==
    /\ pc = "exit"
    /\ LinesOfKind({"no_mp3"}) # <<>>
    /\ mkdir_created
    /\ output_dir \in dirs

====
